---------------------------- MODULE Spec2Model ----------------------------
(***************************************************************************)
(* PSK31 WAV generator (src/PSK.cpp): the varicode encoder, the 32-bit     *)
(* word bit-stream packer, the differential BPSK modulator and the PCM     *)
(* container writer, as a state machine.                                   *)
(*                                                                         *)
(* Representation choices:                                                 *)
(*  - a uint32_t word is a sequence of 32 bits; element k + 1 is the bit    *)
(*    with mask 1 << (31 - k), so the first is the most significant bit.   *)
(*  - an unsigned char / uint16_t is a natural number, truncated with      *)
(*    % 256 where the code stores into an unsigned char.                   *)
(*  - an angle is an exact multiple of 2*pi/sample_rate_: 2*pi is          *)
(*    sample_rate_ units and angle_delta_ is carrier_freq_ units.  The     *)
(*    build computes in IEEE doubles and rounds; the model is exact.       *)
(*  - sample values (cos(...) * max_amplitude_) are not interpreted: the   *)
(*    file keeps its header bytes and the count of bytes written.          *)
(*  - PSK.h in src/ declares no members: the members' constants and the    *)
(*    code table are taken from the specification (sections 3, 6).         *)
(***************************************************************************)
EXTENDS Integers, Sequences

VARIABLES
    (* ---- PSK object ---- *)
    mode_,                \* Mode, fixed at construction
    symbol_rate_,         \* 125 / 250 / 500
    samples_per_symbol_,  \* floor(sample_rate_ / symbol_rate_)
    angle_delta_,         \* per-sample increment, in units of 2*pi/sample_rate_
    carrier_wave_angle_,  \* phase accumulator, same units
    preamble_length_,     \* number of zero bits before the message
    postamble_length_,    \* number of zero bits after the message
    bit_stream_,          \* completed words (std::vector<uint32_t>)
    bit_stream_buffer_,   \* current word
    bit_stream_offset_,   \* fill-offset of the current word / read offset
    bit_stream_index_,    \* read cursor: word index
    wav_file_,            \* [hdr, size, pos, open]
    data_start_,          \* stream position after the header
    (* ---- control ---- *)
    pc,                   \* position in encodeTextData / packer phase
    message,              \* argument of encodeTextData (sequence of chars)
    msg_i,                \* loop index over message
    amble_i,              \* local i of addPreamble / addPostamble
    bit,                  \* local of encodeBitStream: last popNextBit result
    last_phase,           \* local of encodeBitStream
    sample_i,             \* local i of addSymbol (per-sample specification)
    result,               \* outcome of the call
    (* ---- observation (history) ---- *)
    appended,             \* bits the callers asked addBits to append, in order
    popped,               \* bits popNextBit returned, in order
    shifts,               \* arguments passed to addSymbol, in order
    call,                 \* last addBits call: state before it, data, count
    vc,                   \* last addVaricode call: code value, start position
    prev                  \* outcome of the previous run on the same message

vars == << mode_, symbol_rate_, samples_per_symbol_, angle_delta_,
           carrier_wave_angle_, preamble_length_, postamble_length_,
           bit_stream_, bit_stream_buffer_, bit_stream_offset_,
           bit_stream_index_, wav_file_, data_start_, pc, message, msg_i,
           amble_i, bit, last_phase, sample_i, result, appended, popped, shifts,
           call, vc, prev >>

---------------------------------------------------------------------------
(* Bounds of the model *)

\* longest message drawn at construction (end-to-end specification)
MaxMsgLen == 2
\* packer specification: most preamble bits, characters, postamble bits
MaxPackPre == 33
MaxPackChars == 2
MaxPackPost == 1
\* per-sample specification: most symbols
MaxCarrierSymbols == 3

---------------------------------------------------------------------------
(* Program constants (members of class PSK, declared in PSK.h) *)

sample_rate_ == 44100
bits_per_sample_ == 16
carrier_freq_ == 1000
\* M_PI converted to the int parameter of addSymbol(int shift)
M_PI_int == 3
\* 2*pi in angle units
TwoPi == sample_rate_

BPSKModes == {"BPSK125", "BPSK250", "BPSK500"}
QPSKModes == {"QPSK125", "QPSK250", "QPSK500"}
Modes == BPSKModes \cup QPSKModes

\* the tunable preamble / postamble lengths the model is checked for
AmbleConfigs == { <<0, 0>>, <<3, 2>>, <<32, 32>> }

\* carrier frequencies of the per-sample specification (0 < f < sample_rate_)
CarrierFreqs == { carrier_freq_, sample_rate_ \div 4, sample_rate_ \div 2 }

---------------------------------------------------------------------------
(* Code table: ascii_to_varicode (PSK31 varicode, right-justified) *)

\* characters of the model's messages: ' ', 'H', 'Z', 'i'
TableChars == {32, 72, 90, 105}
\* a char outside the 7-bit table (negative as a signed char)
OutsideChars == {200}
Alphabet == TableChars \cup OutsideChars

ascii_to_varicode(c) ==
    CASE c = 32  -> 1       \* ' '  1
      [] c = 72  -> 341     \* 'H'  101010101
      [] c = 90  -> 685     \* 'Z'  1010101101
      [] c = 105 -> 13      \* 'i'  1101

\* what the out-of-bounds read ascii_to_varicode[c] may yield
OutOfBoundsReads == {0, 5, 65535}

TableRead(c) == IF c \in TableChars THEN {ascii_to_varicode(c)}
                ELSE OutOfBoundsReads

---------------------------------------------------------------------------
(* Bits, bytes and words *)

Pow2(n) == 2 ^ n

\* varicode & (1 << i), as 0 or 1
BitOf(v, i) == (v \div Pow2(i)) % 2

\* data & (1 << (7 - j)), as 0 or 1: bit j of a byte, left to right
ByteBit(b, j) == (b \div Pow2(7 - j)) % 2

Max(a, b) == IF a >= b THEN a ELSE b

ZeroWord == [k \in 1..32 |-> 0]

\* w | (byte << (32 - off - 8))
OrByteAt(w, b, off) ==
    [w EXCEPT ![off + 1] = Max(@, ByteBit(b, 0)),
              ![off + 2] = Max(@, ByteBit(b, 1)),
              ![off + 3] = Max(@, ByteBit(b, 2)),
              ![off + 4] = Max(@, ByteBit(b, 3)),
              ![off + 5] = Max(@, ByteBit(b, 4)),
              ![off + 6] = Max(@, ByteBit(b, 5)),
              ![off + 7] = Max(@, ByteBit(b, 6)),
              ![off + 8] = Max(@, ByteBit(b, 7))]

\* w | (b ? 1 << (32 - off - 1) : 0)
OrBitAt(w, b, off) == [w EXCEPT ![off + 1] = Max(@, b)]

WordBits(w, n) == SubSeq(w, 1, n)

RECURSIVE Flatten(_)
Flatten(ws) == IF ws = << >> THEN << >>
               ELSE WordBits(Head(ws), 32) \o Flatten(Tail(ws))

\* the bits held by the packer: completed words, then the filled part of
\* the current word
StreamBits(bs, buf, off) == Flatten(bs) \o WordBits(buf, off)

---------------------------------------------------------------------------
(* Bit-stream packer: addBits, pushBufferToBitStream, popNextBit *)

\* the packer's write state, as addBits reads and writes it
Packer(bs, buf, off) == [bs |-> bs, buf |-> buf, off |-> off]

\* lines 339-347 with the buffer word kept on a push (a missing reset)
PushIfFull_KeepBuffer(st) ==
    IF 32 - st.off = 0
    THEN [st EXCEPT !.bs = Append(@, st.buf), !.off = 0]
    ELSE st

\* lines 339-347: a full buffer is written to the bit stream
PushIfFull(st) ==
    IF 32 - st.off = 0
    THEN [st EXCEPT !.bs = Append(@, st.buf), !.buf = ZeroWord, !.off = 0]
    ELSE st

\* lines 349-354: write a byte at a time
ByteStep(st, data) ==
    [st EXCEPT !.buf = OrByteAt(@, data[st.di + 1], st.off),
               !.off = @ + 8,
               !.n = @ - 8,
               !.di = @ + 1]

\* lines 355-365: write a bit at a time
BitStep(st, data) ==
    [st EXCEPT !.buf = OrBitAt(@, ByteBit(data[st.di + 1], st.bi), st.off),
               !.off = @ + 1,
               !.n = @ - 1,
               !.bi = IF st.bi + 1 = 8 THEN 0 ELSE st.bi + 1,
               !.di = IF st.bi + 1 = 8 THEN @ + 1 ELSE @]

\* the while loop of addBits; st = [bs, buf, off, n, di, bi]
RECURSIVE AddBitsLoop(_, _)
AddBitsLoop(st, data) ==
    IF st.n > 0
    THEN LET s1 == PushIfFull(st)
             buffer_space == 32 - s1.off
         IN  IF buffer_space >= s1.n /\ s1.n > 8
             THEN AddBitsLoop(ByteStep(s1, data), data)
             ELSE AddBitsLoop(BitStep(s1, data), data)
    ELSE st

\* PSK::addBits(data, num_bits) on packer state p
AddBits(p, data, num_bits) ==
    LET st == AddBitsLoop([bs |-> p.bs, buf |-> p.buf, off |-> p.off,
                           n |-> num_bits, di |-> 0, bi |-> 0], data)
    IN  Packer(st.bs, st.buf, st.off)

\* static unsigned char zeros[1] = {0x00}
zeros == << 0 >>

\* the source bits addBits is asked to append: the first n bits of data,
\* most significant first
SourceBits(data, n) ==
    [k \in 1..n |-> ByteBit(data[((k - 1) \div 8) + 1], (k - 1) % 8)]

\* the for loop of addPreamble / addPostamble: length calls of
\* addBits(zeros, 1); st = [p, i]
RECURSIVE AmbleLoop(_, _)
AmbleLoop(st, length) ==
    IF st.i < length
    THEN AmbleLoop([p |-> AddBits(st.p, zeros, 1), i |-> st.i + 1], length)
    ELSE st.p

AddZeroBits(p, length) == AmbleLoop([p |-> p, i |-> 0], length)

\* the scan of addVaricode (lines 306-320): the first i in 0..15 whose bit
\* and whose previous bit are both zero; 16 when the loop ends without one
RECURSIVE VaricodeScan(_, _, _)
VaricodeScan(varicode, i, previous_bit) ==
    IF i >= 16 THEN 16
    ELSE IF BitOf(varicode, i) = 0 /\ previous_bit = 0 THEN i
    ELSE VaricodeScan(varicode, i + 1, BitOf(varicode, i))

\* bits[0], bits[1] of addVaricode (lines 311-312), as unsigned chars
VaricodeBytes(varicode, i) ==
    << (IF i > 9 THEN varicode \div 2 ELSE varicode * Pow2(9 - i)) % 256,
       (IF i > 9 THEN varicode * Pow2(17 - i) ELSE 0) % 256 >>

\* PSK::addVaricode with the table value already read
AddVaricode(p, varicode) ==
    LET i == VaricodeScan(varicode, 0, 1)
    IN  IF i >= 16 THEN p
        ELSE AddBits(p, VaricodeBytes(varicode, i), i - 1)

\* the bits addVaricode hands to addBits
VaricodeSource(varicode) ==
    LET i == VaricodeScan(varicode, 0, 1)
    IN  IF i >= 16 THEN << >>
        ELSE SourceBits(VaricodeBytes(varicode, i), i - 1)

\* PSK::popNextBit: [bit, off, idx]
PopNextBit(bs, off, idx) ==
    IF idx >= Len(bs)
    THEN [bit |-> -1, off |-> off, idx |-> idx]
    ELSE [bit |-> bs[idx + 1][off + 1],
          off |-> IF off + 1 = 32 THEN 0 ELSE off + 1,
          idx |-> IF off + 1 = 32 THEN idx + 1 ELSE idx]

---------------------------------------------------------------------------
(* PCM container writer: openFile, writeHeader, writeBytes, finalizeFile *)

\* the file before it is opened: no bytes, closed
ClosedFile == [hdr |-> << >>, size |-> 0, pos |-> 0, open |-> FALSE]

\* std::ofstream::open(path, std::ios::binary): the file is truncated
OpenFile(f) == [hdr |-> << >>, size |-> 0, pos |-> 0, open |-> TRUE]

\* write bytes at the put position (within or at the end of the kept bytes)
WriteAt(f, bytes) ==
    LET n      == Len(bytes)
        newLen == Max(Len(f.hdr), f.pos + n)
    IN  [f EXCEPT !.hdr  = [k \in 1..newLen |->
                               IF k > f.pos /\ k <= f.pos + n
                               THEN bytes[k - f.pos] ELSE f.hdr[k]],
                  !.size = Max(f.size, f.pos + n),
                  !.pos  = f.pos + n]

\* the low size bytes of the int data, as wav_file_.write stores them
IntBytes(data, size) == [k \in 1..size |-> (data \div (256 ^ (k - 1))) % 256]

\* PSK::writeBytes(data, size)
WriteBytes(f, data, size) == WriteAt(f, IntBytes(data, size))

\* "RIFF****WAVE", "fmt ", "data****"
StrRiffWave == << 82, 73, 70, 70, 42, 42, 42, 42, 87, 65, 86, 69 >>
StrFmt == << 102, 109, 116, 32 >>
StrData == << 100, 97, 116, 97, 42, 42, 42, 42 >>

\* PSK::writeHeader, up to the tellp()
WriteHeader(f) ==
    LET f1 == WriteAt(f, StrRiffWave)
        f2 == WriteAt(f1, StrFmt)
        f3 == WriteBytes(f2, 16, 4)
        f4 == WriteBytes(f3, 1, 2)
        f5 == WriteBytes(f4, 1, 2)
        f6 == WriteBytes(f5, sample_rate_, 4)
        f7 == WriteBytes(f6, (sample_rate_ * bits_per_sample_) \div 8, 4)
        f8 == WriteBytes(f7, bits_per_sample_ \div 8, 2)
        f9 == WriteBytes(f8, bits_per_sample_, 2)
    IN  WriteAt(f9, StrData)

\* finalizeFile with the overall size written without the - 8
FinalizeFile_WholeSize(f, data_start) ==
    LET data_end == f.pos
        f1 == WriteBytes([f EXCEPT !.pos = data_start - 4],
                         data_end - data_start, 4)
        f2 == WriteBytes([f1 EXCEPT !.pos = 4], data_end, 4)
    IN  [f2 EXCEPT !.open = FALSE]

\* PSK::finalizeFile
FinalizeFile(f, data_start) ==
    LET data_end == f.pos
        f1 == WriteBytes([f EXCEPT !.pos = data_start - 4],
                         data_end - data_start, 4)
        f2 == WriteBytes([f1 EXCEPT !.pos = 4], data_end - 8, 4)
    IN  [f2 EXCEPT !.open = FALSE]

\* the samples_per_symbol_ calls writeBytes(sample, 2) of one addSymbol; the
\* put position is at the end of the file while samples are written
WriteSamples(f, count) ==
    [f EXCEPT !.size = Max(f.size, f.pos + 2 * count),
              !.pos  = f.pos + 2 * count]

\* the 4-byte little-endian field at byte offset at
Field32(f, at) ==
    f.hdr[at + 1] + 256 * f.hdr[at + 2] + 65536 * f.hdr[at + 3]
    + 16777216 * f.hdr[at + 4]

---------------------------------------------------------------------------
(* Construction and modulation *)

\* the switch of the constructor (lines 66-88)
SymbolRate(mode) ==
    CASE mode = "BPSK125" -> 125
      [] mode = "BPSK250" -> 250
      [] mode = "BPSK500" -> 500
      [] mode = "QPSK125" -> 125
      [] mode = "QPSK250" -> 250
      [] mode = "QPSK500" -> 500

\* samples per symbol rounded up instead of down
SamplesPerSymbol_Ceil(symbol_rate) ==
    (sample_rate_ + symbol_rate - 1) \div symbol_rate

\* line 90: std::floor(sample_rate_ / symbol_rate_)
SamplesPerSymbol(symbol_rate) == sample_rate_ \div symbol_rate

\* lines 461-464: one sample's advance of the phase accumulator
NextAngle(angle, delta) ==
    LET a == angle + delta IN IF a > TwoPi THEN a - TwoPi ELSE a

\* the accumulator after the count samples of one addSymbol: NextAngle
\* applied count times (the first half of the samples, then the rest)
AdvanceAngle[angle \in Nat, delta \in Nat, count \in Nat] ==
    IF count = 0 THEN angle
    ELSE IF count = 1 THEN NextAngle(angle, delta)
    ELSE AdvanceAngle[AdvanceAngle[angle, delta, count \div 2],
                      delta, count - (count \div 2)]

\* the argument encodeBitStream passes to addSymbol(int shift) for a bit
ShiftFor(b, lp) ==
    IF b # 0 THEN (IF lp # 0 THEN 0 ELSE M_PI_int)
    ELSE (IF lp # 0 THEN M_PI_int ELSE 0)

\* last_phase after a bit (line 442: toggled on a 0 only)
PhaseAfter(b, lp) == IF b # 0 THEN lp ELSE (IF lp # 0 THEN 0 ELSE 1)

---------------------------------------------------------------------------
(* End-to-end specification: PSK::PSK, then PSK::encodeTextData(message),  *)
(* then once more with another mode on the same message.                   *)

Messages == UNION { [1..n -> Alphabet] : n \in 0..MaxMsgLen }

NoCall == [n |-> -1]
NoVc == [code |-> -1]
NoPrev == [mode |-> "none"]

IsBPSK(mode) == mode \in BPSKModes

\* the packer state held in the object's fields
CurPacker == Packer(bit_stream_, bit_stream_buffer_, bit_stream_offset_)

\* the constructor PSK::PSK(file_path, mode) (lines 59-91): the members it
\* sets, the other members' initial values, and the call's locals
Constructed(mode) ==
    [ mode_ |-> mode,
      symbol_rate_ |-> SymbolRate(mode),
      samples_per_symbol_ |-> SamplesPerSymbol(SymbolRate(mode)),
      angle_delta_ |-> carrier_freq_,
      carrier_wave_angle_ |-> 0,
      bit_stream_ |-> << >>,
      bit_stream_buffer_ |-> ZeroWord,
      bit_stream_offset_ |-> 0,
      bit_stream_index_ |-> 0,
      data_start_ |-> 0,
      pc |-> "start",
      msg_i |-> 1,
      amble_i |-> 0,
      bit |-> -1,
      last_phase |-> 0,
      sample_i |-> 0,
      result |-> "none",
      appended |-> << >>,
      popped |-> << >>,
      shifts |-> << >>,
      call |-> NoCall,
      vc |-> NoVc ]

Init ==
    /\ message \in Messages
    /\ \E cfg \in AmbleConfigs :
          preamble_length_ = cfg[1] /\ postamble_length_ = cfg[2]
    /\ \E m \in Modes :
          /\ mode_ = Constructed(m).mode_
          /\ symbol_rate_ = Constructed(m).symbol_rate_
          /\ samples_per_symbol_ = Constructed(m).samples_per_symbol_
          /\ angle_delta_ = Constructed(m).angle_delta_
          /\ carrier_wave_angle_ = Constructed(m).carrier_wave_angle_
          /\ bit_stream_ = Constructed(m).bit_stream_
          /\ bit_stream_buffer_ = Constructed(m).bit_stream_buffer_
          /\ bit_stream_offset_ = Constructed(m).bit_stream_offset_
          /\ bit_stream_index_ = Constructed(m).bit_stream_index_
          /\ data_start_ = Constructed(m).data_start_
          /\ pc = Constructed(m).pc
          /\ msg_i = Constructed(m).msg_i
          /\ amble_i = Constructed(m).amble_i
          /\ bit = Constructed(m).bit
          /\ last_phase = Constructed(m).last_phase
          /\ sample_i = Constructed(m).sample_i
          /\ result = Constructed(m).result
          /\ appended = Constructed(m).appended
          /\ popped = Constructed(m).popped
          /\ shifts = Constructed(m).shifts
          /\ call = Constructed(m).call
          /\ vc = Constructed(m).vc
    /\ wav_file_ = ClosedFile
    /\ prev = NoPrev

objConst == << mode_, symbol_rate_, samples_per_symbol_, angle_delta_,
               preamble_length_, postamble_length_, message, prev >>
packerVars == << bit_stream_, bit_stream_buffer_, bit_stream_offset_ >>
fileVars == << wav_file_, data_start_ >>
modVars == << carrier_wave_angle_, bit, last_phase, shifts, popped >>
unitVars == << sample_i, amble_i, call, vc >>

SetPacker(p) ==
    /\ bit_stream_' = p.bs
    /\ bit_stream_buffer_' = p.buf
    /\ bit_stream_offset_' = p.off

\* lines 153-154: openFile fails and encodeTextData throws
OpenFails ==
    /\ pc = "start"
    /\ pc' = "failed"
    /\ result' = "invalid_argument"
    /\ UNCHANGED << objConst, packerVars, fileVars, modVars, unitVars,
                    bit_stream_index_, msg_i, appended >>

\* lines 153-157: openFile succeeds, writeHeader
OpenAndWriteHeader ==
    /\ pc = "start"
    /\ wav_file_' = WriteHeader(OpenFile(wav_file_))
    /\ data_start_' = wav_file_'.pos
    /\ pc' = "preamble"
    /\ UNCHANGED << objConst, packerVars, modVars, unitVars,
                    bit_stream_index_, msg_i, appended, result >>

\* line 166: addPreamble
AddPreamble ==
    /\ pc = "preamble"
    /\ SetPacker(AddZeroBits(CurPacker, preamble_length_))
    /\ appended' = appended \o [k \in 1..preamble_length_ |-> 0]
    /\ pc' = "message"
    /\ UNCHANGED << objConst, fileVars, modVars, unitVars,
                    bit_stream_index_, msg_i, result >>

\* lines 167-171: one iteration of the loop over the message
EncodeChar ==
    /\ pc = "message"
    /\ msg_i <= Len(message)
    /\ \E varicode \in TableRead(message[msg_i]) :
          /\ SetPacker(AddBits(AddVaricode(CurPacker, varicode), zeros, 2))
          /\ appended' = appended \o VaricodeSource(varicode) \o << 0, 0 >>
    /\ msg_i' = msg_i + 1
    /\ UNCHANGED << objConst, fileVars, modVars, unitVars,
                    bit_stream_index_, pc, result >>

\* line 172: addPostamble
AddPostamble ==
    /\ pc = "message"
    /\ msg_i > Len(message)
    /\ SetPacker(AddZeroBits(CurPacker, postamble_length_))
    /\ appended' = appended \o [k \in 1..postamble_length_ |-> 0]
    /\ pc' = "flush"
    /\ UNCHANGED << objConst, fileVars, modVars, unitVars,
                    bit_stream_index_, msg_i, result >>

\* line 173: pushBufferToBitStream (lines 379-384)
PushBufferToBitStream ==
    /\ pc = "flush"
    /\ bit_stream_' = Append(bit_stream_, bit_stream_buffer_)
    /\ bit_stream_buffer_' = ZeroWord
    /\ bit_stream_offset_' = 0
    /\ bit_stream_index_' = 0
    /\ pc' = "encode"
    /\ UNCHANGED << objConst, fileVars, modVars, unitVars, msg_i, appended,
                    result >>

\* popNextBit applied to the object's read cursor
DoPop ==
    LET r == PopNextBit(bit_stream_, bit_stream_offset_, bit_stream_index_)
    IN  /\ bit' = r.bit
        /\ bit_stream_offset_' = r.off
        /\ bit_stream_index_' = r.idx
        /\ popped' = IF r.bit = -1 THEN popped ELSE Append(popped, r.bit)

\* encodeBitStream, lines 434-436: the first popNextBit of a BPSK mode
EncodeBitStreamBegin ==
    /\ pc = "encode"
    /\ IsBPSK(mode_)
    /\ DoPop
    /\ last_phase' = 0
    /\ pc' = "loop"
    /\ UNCHANGED << objConst, fileVars, unitVars, bit_stream_,
                    bit_stream_buffer_, carrier_wave_angle_, shifts, msg_i,
                    appended, result >>

\* encodeBitStream, lines 447-449: the QPSK branch is empty
EncodeBitStreamQPSK ==
    /\ pc = "encode"
    /\ mode_ \in QPSKModes
    /\ pc' = "finalize"
    /\ UNCHANGED << objConst, packerVars, fileVars, modVars, unitVars,
                    bit_stream_index_, msg_i, appended, result >>

\* encodeBitStream, lines 437-446: one bit: addSymbol (lines 458-467), the
\* phase toggle, the next popNextBit
EncodeBitStreamStep ==
    /\ pc = "loop"
    /\ bit # -1
    /\ shifts' = Append(shifts, ShiftFor(bit, last_phase))
    /\ wav_file_' = WriteSamples(wav_file_, samples_per_symbol_)
    /\ carrier_wave_angle_' =
          AdvanceAngle[carrier_wave_angle_, angle_delta_, samples_per_symbol_]
    /\ last_phase' = PhaseAfter(bit, last_phase)
    /\ DoPop
    /\ UNCHANGED << objConst, unitVars, bit_stream_, bit_stream_buffer_,
                    data_start_, msg_i, appended, result, pc >>

\* encodeBitStream, line 437: popNextBit returned -1
EncodeBitStreamEnd ==
    /\ pc = "loop"
    /\ bit = -1
    /\ pc' = "finalize"
    /\ UNCHANGED << objConst, packerVars, fileVars, modVars, unitVars,
                    bit_stream_index_, msg_i, appended, result >>

\* lines 181-182: finalizeFile, return true
Finalize ==
    /\ pc = "finalize"
    /\ wav_file_' = FinalizeFile(wav_file_, data_start_)
    /\ pc' = "done"
    /\ result' = "true"
    /\ UNCHANGED << objConst, packerVars, modVars, unitVars, data_start_,
                    bit_stream_index_, msg_i, appended >>

\* the number of samples written to the data chunk
SamplesWritten == (wav_file_.size - data_start_) \div 2

\* a second PSK object, for the same path and message, with another mode
Reconstruct ==
    /\ pc = "done"
    /\ prev = NoPrev
    /\ prev' = [mode |-> mode_, symbol_rate |-> symbol_rate_,
                samples |-> SamplesWritten, size |-> wav_file_.size]
    /\ \E m \in Modes \ {mode_} :
          /\ mode_' = Constructed(m).mode_
          /\ symbol_rate_' = Constructed(m).symbol_rate_
          /\ samples_per_symbol_' = Constructed(m).samples_per_symbol_
          /\ angle_delta_' = Constructed(m).angle_delta_
          /\ carrier_wave_angle_' = Constructed(m).carrier_wave_angle_
          /\ bit_stream_' = Constructed(m).bit_stream_
          /\ bit_stream_buffer_' = Constructed(m).bit_stream_buffer_
          /\ bit_stream_offset_' = Constructed(m).bit_stream_offset_
          /\ bit_stream_index_' = Constructed(m).bit_stream_index_
          /\ data_start_' = Constructed(m).data_start_
          /\ pc' = Constructed(m).pc
          /\ msg_i' = Constructed(m).msg_i
          /\ amble_i' = Constructed(m).amble_i
          /\ bit' = Constructed(m).bit
          /\ last_phase' = Constructed(m).last_phase
          /\ sample_i' = Constructed(m).sample_i
          /\ result' = Constructed(m).result
          /\ appended' = Constructed(m).appended
          /\ popped' = Constructed(m).popped
          /\ shifts' = Constructed(m).shifts
          /\ call' = Constructed(m).call
          /\ vc' = Constructed(m).vc
    /\ UNCHANGED << preamble_length_, postamble_length_, message, wav_file_ >>

Next ==
    \/ OpenFails
    \/ OpenAndWriteHeader
    \/ AddPreamble
    \/ EncodeChar
    \/ AddPostamble
    \/ PushBufferToBitStream
    \/ EncodeBitStreamBegin
    \/ EncodeBitStreamQPSK
    \/ EncodeBitStreamStep
    \/ EncodeBitStreamEnd
    \/ Finalize
    \/ Reconstruct

Spec == Init /\ [][Next]_vars

---------------------------------------------------------------------------
(* Claims checked under Spec *)

AllInTable(msg) == \A k \in 1..Len(msg) : msg[k] \in TableChars

\* the number of bits of a code value: the position of its leading 1
RECURSIVE BitLength(_)
BitLength(v) == IF v = 0 THEN 0 ELSE 1 + BitLength(v \div 2)

\* sum over the message's characters of (varicode length + 2)
RECURSIVE MessageBits(_)
MessageBits(msg) ==
    IF msg = << >> THEN 0
    ELSE BitLength(ascii_to_varicode(Head(msg))) + 2 + MessageBits(Tail(msg))

\* C1: for a message within the code table, a BPSK mode writes a data
\* chunk of samples_per_symbol * (preamble + sum of (code length + 2) +
\* postamble) * 2 bytes: one symbol per appended bit and nothing else.
C1_DataChunkSize ==
    (pc = "done" /\ IsBPSK(mode_) /\ AllInTable(message)) =>
        wav_file_.size - data_start_ =
            samples_per_symbol_
            * (preamble_length_ + MessageBits(message) + postamble_length_)
            * 2

\* the stated differential rule, from last_phase = 0: a symbol at the phase
\* of the one before it is a 1, a symbol at the other phase is a 0
DifferentialDecode(s) ==
    [k \in 1..Len(s) |->
        IF s[k] = (IF k = 1 THEN 0 ELSE s[k - 1]) THEN 1 ELSE 0]

\* C4: in a BPSK mode, the phases passed to addSymbol decode, by the
\* differential rule started at phase 0, to the bits that were popped, the
\* first bit included.
C4_DifferentialRoundTrip ==
    IsBPSK(mode_) =>
        DifferentialDecode(shifts) = SubSeq(popped, 1, Len(shifts))

\* C5: once encodeTextData has completed, the header is 44 bytes and the
\* two patched length fields hold (file size - 8) at offset 4 and
\* (file size - 44) at offset 40.
C5_HeaderLengthFields ==
    pc = "done" =>
        /\ data_start_ = 44
        /\ Len(wav_file_.hdr) = 44
        /\ Field32(wav_file_, 4) = wav_file_.size - 8
        /\ Field32(wav_file_, 40) = wav_file_.size - 44

\* a completed call that wrote the samples of a two-character message
C5_Witness ==
    /\ pc = "done"
    /\ Len(message) = 2
    /\ IsBPSK(mode_)
    /\ wav_file_.size > 44
    /\ ~ wav_file_.open

\* C6: a message with a character outside the code table makes the call
\* signal UnsupportedCharacter, and no byte is written to the file.
C6_UnsupportedCharacterBeforeWrite ==
    (~ AllInTable(message)) =>
        /\ wav_file_.size = 0
        /\ pc = "done" => result = "UnsupportedCharacter"

\* the second run used a higher symbol rate than the first
HigherRateRerun ==
    pc = "done" /\ prev # NoPrev /\ symbol_rate_ > prev.symbol_rate

\* fewer samples, a smaller file, and samples in proportion to the rate
FewerSamplesInProportion ==
    /\ SamplesWritten < prev.samples
    /\ wav_file_.size < prev.size
    /\ SamplesWritten * symbol_rate_ = prev.samples * prev.symbol_rate

---------------------------------------------------------------------------
(* Packer specification: the addBits calls encodeTextData makes (preamble  *)
(* bits, then varicodes each followed by its separator, then postamble     *)
(* bits), for any preamble, message and postamble within the bounds; then  *)
(* pushBufferToBitStream and the popNextBit calls of encodeBitStream.      *)

\* code values addVaricode is given: ' ', 'i', 'H', 'Z' and ten 1 bits
PackCodes == { ascii_to_varicode(c) : c \in TableChars } \cup { 1023 }

InitPack ==
    /\ message = << >>
    /\ preamble_length_ = 0
    /\ postamble_length_ = 0
    /\ mode_ = Constructed("BPSK125").mode_
    /\ symbol_rate_ = Constructed("BPSK125").symbol_rate_
    /\ samples_per_symbol_ = Constructed("BPSK125").samples_per_symbol_
    /\ angle_delta_ = Constructed("BPSK125").angle_delta_
    /\ carrier_wave_angle_ = 0
    /\ bit_stream_ = << >>
    /\ bit_stream_buffer_ = ZeroWord
    /\ bit_stream_offset_ = 0
    /\ bit_stream_index_ = 0
    /\ wav_file_ = ClosedFile
    /\ data_start_ = 0
    /\ pc = "pre"
    /\ msg_i = 1
    /\ amble_i = 0
    /\ bit = -1
    /\ last_phase = 0
    /\ sample_i = 0
    /\ result = "none"
    /\ appended = << >>
    /\ popped = << >>
    /\ shifts = << >>
    /\ call = NoCall
    /\ vc = NoVc
    /\ prev = NoPrev

packIdle == << mode_, symbol_rate_, samples_per_symbol_, angle_delta_,
               carrier_wave_angle_, preamble_length_, postamble_length_,
               wav_file_, data_start_, message, last_phase, sample_i,
               result, shifts, prev >>

\* one addBits(data, num_bits) call on the object, with its record
CallAddBits(data, num_bits) ==
    /\ call' = [p |-> CurPacker, data |-> data, n |-> num_bits]
    /\ SetPacker(AddBits(CurPacker, data, num_bits))
    /\ appended' = appended \o SourceBits(data, num_bits)

\* addPreamble, one iteration (line 392)
PackPreambleBit ==
    /\ pc = "pre"
    /\ amble_i < MaxPackPre
    /\ CallAddBits(zeros, 1)
    /\ amble_i' = amble_i + 1
    /\ UNCHANGED << packIdle, bit_stream_index_, pc, msg_i, bit, popped, vc >>

\* addVaricode (line 168) with the table value varicode
PackVaricode ==
    /\ pc \in {"pre", "msg"}
    /\ msg_i <= MaxPackChars
    /\ \E varicode \in PackCodes :
          LET i == VaricodeScan(varicode, 0, 1)
          IN  /\ vc' = [code |-> varicode, start |-> Len(appended)]
              /\ CallAddBits(VaricodeBytes(varicode, i), i - 1)
    /\ pc' = "sep"
    /\ UNCHANGED << packIdle, bit_stream_index_, msg_i, amble_i, bit, popped >>

\* addBits(zeros, 2) after the varicode (line 170)
PackSeparator ==
    /\ pc = "sep"
    /\ CallAddBits(zeros, 2)
    /\ msg_i' = msg_i + 1
    /\ pc' = "msg"
    /\ UNCHANGED << packIdle, bit_stream_index_, amble_i, bit, popped, vc >>

\* addPostamble, one iteration (line 402)
PackPostambleBit ==
    /\ pc \in {"pre", "msg", "post"}
    /\ (IF pc = "post" THEN amble_i ELSE 0) < MaxPackPost
    /\ CallAddBits(zeros, 1)
    /\ amble_i' = (IF pc = "post" THEN amble_i ELSE 0) + 1
    /\ pc' = "post"
    /\ UNCHANGED << packIdle, bit_stream_index_, msg_i, bit, popped, vc >>

\* pushBufferToBitStream (lines 379-384)
PackFlush ==
    /\ pc \in {"pre", "msg", "post"}
    /\ bit_stream_' = Append(bit_stream_, bit_stream_buffer_)
    /\ bit_stream_buffer_' = ZeroWord
    /\ bit_stream_offset_' = 0
    /\ bit_stream_index_' = 0
    /\ pc' = "read"
    /\ UNCHANGED << packIdle, msg_i, amble_i, bit, popped, appended, call, vc >>

\* popNextBit (lines 411-425), as encodeBitStream calls it until -1
PackPop ==
    /\ pc = "read"
    /\ DoPop
    /\ pc' = IF bit' = -1 THEN "eos" ELSE "read"
    /\ UNCHANGED << packIdle, bit_stream_, bit_stream_buffer_, msg_i,
                    amble_i, appended, call, vc >>

NextPack ==
    \/ PackPreambleBit
    \/ PackVaricode
    \/ PackSeparator
    \/ PackPostambleBit
    \/ PackFlush
    \/ PackPop

SpecPack == InitPack /\ [][NextPack]_vars

---------------------------------------------------------------------------
(* Claims checked under SpecPack *)

Writing == pc \in {"pre", "msg", "sep", "post"}

\* the bits of a code value, most significant first
CodeBits(v) == [k \in 1..BitLength(v) |-> BitOf(v, BitLength(v) - k)]

\* the bits of s from position start + 1 up to the first "00"
RECURSIVE ScanToDoubleZero(_, _, _)
ScanToDoubleZero(s, start, j) ==
    IF j + 1 > Len(s) THEN SubSeq(s, start + 1, Len(s))
    ELSE IF s[j] = 0 /\ s[j + 1] = 0 THEN SubSeq(s, start + 1, j - 1)
    ELSE ScanToDoubleZero(s, start, j + 1)

\* C2: addVaricode appends exactly the L bits of the code, most significant
\* first, so that scanning the stream from the code's first bit to the
\* first "00" (the code and its separator) recovers the code and L.
C2_VaricodeRoundTrip ==
    (pc = "msg" /\ vc # NoVc) =>
        LET s == StreamBits(bit_stream_, bit_stream_buffer_,
                            bit_stream_offset_)
        IN  /\ Len(s) = vc.start + BitLength(vc.code) + 2
            /\ ScanToDoubleZero(s, vc.start, vc.start + 1) = CodeBits(vc.code)

\* one source bit appended the bit-at-a-time way
AppendOneBit(p, b) ==
    LET s1 == PushIfFull(p)
    IN  [s1 EXCEPT !.buf = OrBitAt(@, b, s1.off), !.off = @ + 1]

\* the source bits appended strictly one at a time; st = [p, k]
RECURSIVE BitwiseLoop(_, _)
BitwiseLoop(st, src) ==
    IF st.k <= Len(src)
    THEN BitwiseLoop([p |-> AppendOneBit(st.p, src[st.k]), k |-> st.k + 1],
                     src)
    ELSE st.p

AddBitsBitwise(p, data, num_bits) ==
    BitwiseLoop([p |-> p, k |-> 1], SourceBits(data, num_bits))

\* C3: addBits leaves the same completed words, current word and
\* fill-offset as appending the same source bits one bit at a time.
C3_FastPathEquivalence ==
    (Writing /\ call # NoCall) =>
        CurPacker = AddBitsBitwise(call.p, call.data, call.n)

IsPrefix(s, t) == Len(s) <= Len(t) /\ s = SubSeq(t, 1, Len(s))

\* C9: after the flush, popNextBit returns exactly the appended bits in
\* order and then -1: it never reads past the logical end of the stream.
C9_PopReturnsAppendedBits ==
    /\ pc \in {"read", "eos"} => IsPrefix(popped, appended)
    /\ pc = "eos" => popped = appended

\* C10: before the flush, the fill-offset is within 0..32, the current
\* word is zero at and beyond the fill-offset, and every completed word
\* holds 32 of the appended bits.
C10_PackerInvariant ==
    Writing =>
        /\ bit_stream_offset_ \in 0..32
        /\ \A k \in (bit_stream_offset_ + 1)..32 : bit_stream_buffer_[k] = 0
        /\ \A w \in 1..Len(bit_stream_) : Len(bit_stream_[w]) = 32
        /\ Len(appended) = 32 * Len(bit_stream_) + bit_stream_offset_

\* a partly filled word holding a 1 bit, after a completed word
C10_Witness ==
    /\ pc = "msg"
    /\ Len(bit_stream_) >= 1
    /\ bit_stream_offset_ \in 1..31
    /\ \E k \in 1..bit_stream_offset_ : bit_stream_buffer_[k] = 1
    /\ \E k \in 1..32 : bit_stream_[1][k] = 1

---------------------------------------------------------------------------
(* Per-sample specification: addSymbol (lines 458-467) one sample at a     *)
(* time, for the carrier frequencies of CarrierFreqs.                      *)

InitCarrier ==
    /\ message = << >>
    /\ preamble_length_ = 0
    /\ postamble_length_ = 0
    /\ \E m \in BPSKModes :
          /\ mode_ = m
          /\ symbol_rate_ = SymbolRate(m)
          /\ samples_per_symbol_ = SamplesPerSymbol(SymbolRate(m))
    /\ angle_delta_ \in CarrierFreqs
    /\ carrier_wave_angle_ = 0
    /\ bit_stream_ = << >>
    /\ bit_stream_buffer_ = ZeroWord
    /\ bit_stream_offset_ = 0
    /\ bit_stream_index_ = 0
    /\ wav_file_ = WriteHeader(OpenFile(ClosedFile))
    /\ data_start_ = 44
    /\ pc = "idle"
    /\ msg_i = 1
    /\ amble_i = 0
    /\ bit = -1
    /\ last_phase = 0
    /\ sample_i = 0
    /\ result = "none"
    /\ appended = << >>
    /\ popped = << >>
    /\ shifts = << >>
    /\ call = NoCall
    /\ vc = NoVc
    /\ prev = NoPrev

carrierIdle == << mode_, symbol_rate_, samples_per_symbol_, angle_delta_,
                  preamble_length_, postamble_length_, bit_stream_,
                  bit_stream_buffer_, bit_stream_offset_, bit_stream_index_,
                  data_start_, message, msg_i, amble_i, bit, last_phase,
                  result, appended, popped, call, vc, prev >>

\* addSymbol(shift) is entered: int i = 0
CarrierAddSymbol ==
    /\ pc = "idle"
    /\ Len(shifts) < MaxCarrierSymbols
    /\ \E shift \in {0, M_PI_int} : shifts' = Append(shifts, shift)
    /\ sample_i' = 0
    /\ pc' = "sample"
    /\ UNCHANGED << carrierIdle, carrier_wave_angle_, wav_file_ >>

\* one iteration of the loop of addSymbol (lines 459-466)
CarrierSample ==
    /\ pc = "sample"
    /\ sample_i < samples_per_symbol_
    /\ carrier_wave_angle_' = NextAngle(carrier_wave_angle_, angle_delta_)
    /\ wav_file_' = WriteSamples(wav_file_, 1)
    /\ sample_i' = sample_i + 1
    /\ UNCHANGED << carrierIdle, shifts, pc >>

\* the loop of addSymbol ends
CarrierReturn ==
    /\ pc = "sample"
    /\ sample_i >= samples_per_symbol_
    /\ pc' = "idle"
    /\ UNCHANGED << carrierIdle, carrier_wave_angle_, wav_file_, shifts,
                    sample_i >>

NextCarrier ==
    \/ CarrierAddSymbol
    \/ CarrierSample
    \/ CarrierReturn

SpecCarrier == InitCarrier /\ [][NextCarrier]_vars

\* C8: after every sample the phase accumulator lies in [0, 2*pi): it is
\* never negative and never reaches or exceeds 2*pi.
C8_AccumulatorInRange ==
    carrier_wave_angle_ >= 0 /\ carrier_wave_angle_ < TwoPi

===========================================================================
